---------------------------- MODULE Spec2Model ----------------------------
(***************************************************************************)
(* A model of the booking-service backend.  The repository holds four      *)
(* snapshots of the same route file; the variable snapshot says which one  *)
(* is deployed:                                                            *)
(*   "part_001"   src/unnamed/part_001          (earliest)                 *)
(*   "server_378" src/server.js lines 378..757                             *)
(*   "server_1"   src/server.js lines 1..377                               *)
(*   "part_000"   src/unnamed/part_000          (latest, express-validator)*)
(*                                                                         *)
(* JavaScript strings whose characters matter (emails, phone numbers) are  *)
(* tuples of one-character strings; strings of which only the length and   *)
(* the identity matter (names, passwords, tokens, hashes) are TLA+ strings.*)
(*                                                                         *)
(* A handler with a single store call is one action, taken at its store    *)
(* call (the store executes each call atomically); book-treatment is two   *)
(* actions, its lookups and its save; the seeding is one action per store  *)
(* call.                                                                   *)
(***************************************************************************)
EXTENDS Integers, Sequences, FiniteSets, TLC

VARIABLES
    snapshot,     \* which of the four snapshots runs
    users,        \* the User collection, in insertion order
    treatments,   \* the Treatment collection (a set of documents)
    io,           \* per client: the request in flight, the handler's locals, the response
    registered,   \* history: the 201 responses of register, with the body that was sent
    boot          \* the running process's startup: number, seeding tasks

vars == <<snapshot, users, treatments, io, registered, boot>>

(***************************** bounds **************************************)
MaxUsers == 2
MaxBookings == 2
MaxStartups == 2

Snapshots == {"part_001", "server_378", "server_1", "part_000"}
Legacy == {"part_001", "server_378", "server_1"}
\* Two clients, so that two requests can overlap.
Clients == {"c1", "c2"}

(***************************** strings *************************************)
Digits == {"0", "1", "2", "3", "4", "5", "6", "7", "8", "9"}

AllIn(s, S) == \A i \in 1..Len(s) : s[i] \in S

Lower(c) ==
    CASE c = "A" -> "a"
      [] c = "B" -> "b"
      [] c = "C" -> "c"
      [] c = "X" -> "x"
      [] OTHER -> c

\* validator.js normalizeEmail with its defaults: the address lowercased
\* (the provider-specific rules do not apply to the domains used here).
normalizeEmail(e) == [i \in 1..Len(e) |-> Lower(e[i])]

\* validator.js isEmail: one "@", a local part, a domain with a dot inside.
isEmail(e) ==
    LET at == {i \in 1..Len(e) : e[i] = "@"}
    IN  /\ Cardinality(at) = 1
        /\ \E i \in at :
              /\ i > 1
              /\ \E j \in (i + 2)..(Len(e) - 1) : e[j] = "."

\* validator.js isMobilePhone('any'): digits, with an optional leading "+".
isMobilePhone(p) ==
    LET d == IF Len(p) > 0 /\ p[1] = "+" THEN Tail(p) ELSE p
    IN  Len(d) >= 7 /\ Len(d) <= 15 /\ AllIn(d, Digits)

\* part_000: const validatePhone = (phone) => /^[0-9]{10,15}$/.test(phone)
validatePhone(p) == Len(p) >= 10 /\ Len(p) <= 15 /\ AllIn(p, Digits)

NaN == <<"NaN">>

RECURSIVE StripZeros(_)
StripZeros(d) == IF Len(d) > 1 /\ d[1] = "0" THEN StripZeros(Tail(d)) ELSE d

\* Mongoose's cast of a string to the schema type Number: Number(s); the
\* number is written as its decimal digits without leading zeros.
castNumber(p) ==
    LET d == IF Len(p) > 0 /\ p[1] = "+" THEN Tail(p) ELSE p
    IN  IF Len(d) = 0 \/ ~AllIn(d, Digits) THEN NaN ELSE StripZeros(d)

(***************************** passwords ***********************************)
PwString(s) == [typ |-> "string", val |-> s]
PwNumber == [typ |-> "number", val |-> "123456789012345"]
PwUndefined == [typ |-> "undefined", val |-> ""]

\* bcrypt.genSaltSync(10): 128 random bits.  As for the tokens below, two
\* draws never collide: the salt drawn for the n-th stored user is the n-th.
genSaltSync(n) == "salt" \o ToString(n)
Salts == {genSaltSync(n) : n \in 1..(MaxUsers + 1)}

\* A variant: the password is stored as it was sent.
storePlain(pw, salt) == pw

\* bcrypt.hashSync(password, salt): the salt is part of the hash string.
hashSync(pw, salt) == "$2b$10$" \o salt \o "$" \o pw

\* bcrypt.compareSync(data, hash): hashes data with the salt held in hash.
compareSync(pw, hash) == \E s \in Salts : hash = hashSync(pw, s)

\* crypto.randomBytes(128).toString("hex"): 1024 random bits.  Two draws are
\* taken never to collide, and only equality of tokens is observable, so the
\* n-th stored user holds the n-th distinct value.
randomBytesHex(n) == "hex" \o ToString(n)

\* A variant: default: crypto.randomBytes(128).toString("hex"), without the
\* arrow, is evaluated once, as the schema is built.
accessTokenEvaluatedOnce(us) == randomBytesHex(1)

\* The schema's default for accessToken, evaluated for each new document.
accessTokenDefault(us) == randomBytesHex(Len(us) + 1)

\* req.header("Authorization") of a request without that header.
HeaderMissing == "<undefined>"
HeaderGarbage == "garbage"

(***************************** request bodies ******************************)
Ea == <<"a", "@", "x", ".", "s", "e">>
EA == <<"A", "@", "x", ".", "s", "e">>
Eb == <<"b", "@", "x", ".", "s", "e">>
Ec == <<"c", "@", "x", ".", "s", "e">>
Ebad == <<"a", "x", ".", "s", "e">>

P1 == <<"0", "7", "0", "1", "2", "3", "4", "5", "6", "7">>
P1n == <<"7", "0", "1", "2", "3", "4", "5", "6", "7">>
P2 == <<"0", "7", "0", "9", "9", "9", "9", "9", "9", "9">>
P3 == <<"0", "7", "0", "8", "8", "8", "8", "8", "8", "8">>
Pbad == <<"0", "7", "o", "1", "2", "3", "4", "5", "6", "7">>

Pw1 == PwString("passwordpassword")
Pw2 == PwString("differentpassword")
PwShort == PwString("short")
PwLong == PwString("passwordpasswordpassw")
LongName == "Abcdefghijklmnopqrstuvwxyzabcde"

Body(f, l, e, p, pw) ==
    [kind |-> "register", firstName |-> f, lastName |-> l, email |-> e,
     mobilePhone |-> p, password |-> pw]

BodyAnna == Body("Anna", "Berg", Ea, P1, Pw1)
BodyBo == Body("Bo", "Ek", Eb, P2, Pw2)

RegisterBodies ==
    { BodyAnna,
      Body("Bo", "Ek", EA, P2, Pw2),
      Body("Bo", "Ek", Eb, P1, Pw2),
      BodyBo,
      Body("Bo", "Ek", Ea, P2, Pw2),
      Body("Bo", "Ek", Ec, P1n, Pw2),
      Body("A", "Berg", Ec, P3, Pw1),
      Body("Anna", LongName, Ec, P3, Pw1),
      Body("Anna", "Berg", Ebad, P3, Pw1),
      Body("Anna", "Berg", Ec, Pbad, Pw1),
      Body("Anna", "Berg", Ec, P3, PwShort),
      Body("Anna", "Berg", Ec, P3, PwLong),
      Body("Anna", "Berg", Ec, P3, PwNumber),
      Body("Anna", "Berg", Ec, P3, PwUndefined),
      Body("Bo", "Ek", Ea, P2, PwUndefined) }

LoginBodies ==
    { [kind |-> "login", email |-> e, password |-> pw] :
        e \in {Ea, EA, Eb}, pw \in {Pw1, Pw2, PwNumber, PwUndefined} }

Headers == {randomBytesHex(n) : n \in 1..MaxUsers} \cup {HeaderMissing, HeaderGarbage}


(***************************** the User model ******************************)
\* The schema's cast of mobilePhone: Number in the three older snapshots,
\* String in part_000.
castPhone(snap, p) == IF snap \in Legacy THEN castNumber(p) ELSE p

\* new User({firstName, lastName, email, mobilePhone, password: hash})
NewUser(snap, us, b, hash) ==
    [id |-> Len(us) + 1,
     firstName |-> b.firstName,
     lastName |-> b.lastName,
     email |-> b.email,
     mobilePhone |-> castPhone(snap, b.mobilePhone),
     password |-> hash,
     accessToken |-> accessTokenDefault(us),
     bookedTreatments |-> << >>]

\* Mongoose's validation of the document before it is inserted.
SchemaValid(snap, doc) ==
    /\ Len(doc.firstName) >= 2 /\ Len(doc.firstName) <= 30
    /\ Len(doc.lastName) >= 2 /\ Len(doc.lastName) <= 30
    /\ Len(doc.email) > 0
    /\ IF snap \in Legacy
          THEN doc.mobilePhone # NaN
          ELSE validatePhone(doc.mobilePhone)

\* A variant: only the compound index {email, mobilePhone} is unique.
UniquePairOnly(us, doc) ==
    \A i \in 1..Len(us) :
        ~(us[i].email = doc.email /\ us[i].mobilePhone = doc.mobilePhone)

\* The unique indexes on email and on mobilePhone (and on the pair).
UniqueOk(us, doc) ==
    \A i \in 1..Len(us) :
        us[i].email # doc.email /\ us[i].mobilePhone # doc.mobilePhone

\* User.findOne({email}) / User.findOne({accessToken}): the first match, 0
\* for null.  An undefined value is sent to the store as null, which no
\* stored token equals (the default gives every user a token).
findOneByEmail(us, e) ==
    IF \E i \in 1..Len(us) : us[i].email = e
    THEN CHOOSE i \in 1..Len(us) :
            us[i].email = e /\ \A j \in 1..(i - 1) : us[j].email # e
    ELSE 0

findOneByToken(us, t) ==
    IF \E i \in 1..Len(us) : us[i].accessToken = t
    THEN CHOOSE i \in 1..Len(us) :
            us[i].accessToken = t /\ \A j \in 1..(i - 1) : us[j].accessToken # t
    ELSE 0


(***************************** responses ***********************************)
NoResp == [status |-> 0]
Idle == [st |-> "idle", req |-> [kind |-> "none"], resp |-> NoResp, sends |-> 0]

\* What a client holds once the handler of its request req has ended as out.
Ended(req, out) == [st |-> out.st, req |-> req, resp |-> out.resp, sends |-> out.sends]

\* res.status(n).json(body) once, by a handler that then returns.
Answer(n, body) == [st |-> "answered", resp |-> [status |-> n, body |-> body], sends |-> 1]

\* A first res.status(n).json(body), and k further attempts to send on the
\* same response: each throws (headers already sent), the last one out of
\* the handler.  The client has the first response.
AnswerThenThrow(n, body, k) ==
    [st |-> "answered", resp |-> [status |-> n, body |-> body], sends |-> 1 + k]

\* The async handler throws before it sends anything: no response is sent.
Unanswered == [st |-> "hung", resp |-> NoResp, sends |-> 0]

(***************************** POST /register ******************************)
\* A variant: the stored document is sent as it is.
WholeDocument(snap, u) == u

\* The projection of the new user in the 201 body.
Projection(snap, u) ==
    IF snap \in {"server_1", "part_000"}
    THEN [firstName |-> u.firstName, lastName |-> u.lastName, email |-> u.email,
          mobilePhone |-> u.mobilePhone, id |-> u.id, accessToken |-> u.accessToken]
    ELSE [firstName |-> u.firstName, lastName |-> u.lastName, id |-> u.id,
          accessToken |-> u.accessToken]

\* The express-validator chain of part_000's register: the failing fields.
\* A value that is no string is checked as its string; undefined as "".
RegisterErrors(b) ==
    {f \in {"firstName", "lastName", "email", "mobilePhone", "password"} :
        CASE f = "firstName" -> ~(Len(b.firstName) >= 2 /\ Len(b.firstName) <= 30)
          [] f = "lastName" -> ~(Len(b.lastName) >= 2 /\ Len(b.lastName) <= 30)
          [] f = "email" -> ~isEmail(b.email)
          [] f = "mobilePhone" -> ~isMobilePhone(b.mobilePhone)
          [] OTHER -> ~(Len(b.password.val) >= 15 /\ Len(b.password.val) <= 20)}

CouldNotCreate(e) ==
    [success |-> FALSE, response |-> [error |-> e], message |-> "Could not create user"]

\* The try block of register: hash, new User(...).save(), 201; the catch
\* answers 400.  alreadySent: a response was sent before the block.
\* The result: the collection afterwards, and what the client gets.
RegisterSave(snap, us, b, salt, alreadySent) ==
    LET early == [success |-> FALSE,
                  message |-> "Password needs to be between 15 and 20 characters"]
        fail(e) == IF alreadySent THEN AnswerThenThrow(400, early, 1)
                   ELSE Answer(400, CouldNotCreate(e))
    IN  IF b.password.typ # "string"
        THEN [users |-> us, out |-> fail("bcrypt: data must be a string")]
        ELSE LET doc == NewUser(snap, us, b, hashSync(b.password.val, salt))
             IN  IF ~SchemaValid(snap, doc)
                 THEN [users |-> us, out |-> fail("ValidationError")]
                 ELSE IF ~UniqueOk(us, doc)
                 THEN [users |-> us, out |-> fail("E11000 duplicate key")]
                 ELSE [users |-> Append(us, doc),
                       out |-> IF alreadySent THEN AnswerThenThrow(400, early, 2)
                               ELSE Answer(201, [success |-> TRUE,
                                                 response |-> Projection(snap, doc)])]

\* The three older snapshots: the length check sends 400 and does not
\* return; password.length of undefined throws outside the try block.
RegisterLegacy(snap, us, b, salt) ==
    IF b.password.typ = "undefined"
    THEN [users |-> us, out |-> Unanswered]
    ELSE RegisterSave(snap, us, b, salt,
                      /\ b.password.typ = "string"
                      /\ (Len(b.password.val) < 15 \/ Len(b.password.val) > 20))

\* part_000: the validation result is checked first, and returns.
RegisterValidated(snap, us, b, salt) ==
    IF RegisterErrors(b) # {}
    THEN [users |-> us,
          out |-> Answer(400, [success |-> FALSE, errors |-> RegisterErrors(b)])]
    ELSE RegisterSave(snap, us, [b EXCEPT !.email = normalizeEmail(b.email)],
                      salt, FALSE)

register(snap, us, b, salt) ==
    IF snap \in Legacy THEN RegisterLegacy(snap, us, b, salt)
    ELSE RegisterValidated(snap, us, b, salt)

(***************************** POST /login *********************************)
LoginErrors(b) ==
    {f \in {"email", "password"} :
        IF f = "email" THEN ~isEmail(b.email) ELSE Len(b.password.val) = 0}

InvalidCredentials(snap) ==
    IF snap \in Legacy
    THEN [success |-> FALSE, response |-> [text |-> "Credentials do not match"]]
    ELSE [success |-> FALSE, message |-> "Invalid login credentials"]

\* A variant: a successful login answers with a newly drawn token.
LoginIssuingToken(snap, us, b) ==
    LET i == findOneByEmail(us, b.email)
    IN  IF i # 0 /\ b.password.typ = "string" /\ compareSync(b.password.val, us[i].password)
        THEN Answer(200, [success |-> TRUE,
                          response |-> Projection(snap, [us[i] EXCEPT
                                          !.accessToken = accessTokenDefault(us)])])
        ELSE Answer(400, InvalidCredentials(snap))

\* findOne by the email as sent; bcrypt.compareSync throws on a password
\* that is no string, and is reached only when a user was found.
LoginLookup(snap, us, b) ==
    LET i == findOneByEmail(us, b.email)
    IN  IF i = 0 THEN Answer(400, InvalidCredentials(snap))
        ELSE IF b.password.typ # "string"
        THEN Answer(500, [success |-> FALSE,
                          response |-> [error |-> "bcrypt: data must be a string"]])
        ELSE IF compareSync(b.password.val, us[i].password)
        THEN Answer(200, [success |-> TRUE, response |-> Projection(snap, us[i])])
        ELSE Answer(400, InvalidCredentials(snap))

login(snap, us, b) ==
    IF snap = "part_000" /\ LoginErrors(b) # {}
    THEN Answer(400, [success |-> FALSE, errors |-> LoginErrors(b)])
    ELSE LoginLookup(snap, us, b)

(***************************** authentication ******************************)
PleaseLogIn == [success |-> FALSE, response |-> [text |-> "Please log in"], loggedOut |-> TRUE]

\* A variant: a condition whose value is undefined is dropped from the
\* filter, and findOne({}) is the first user of the collection.
authenticateDroppingUndefined(us, header) ==
    IF header = HeaderMissing
    THEN IF Len(us) > 0 THEN 1 ELSE 0
    ELSE findOneByToken(us, header)

\* authenticateUser: the index of the user whose token the header equals
\* (req.user, and next() is called), or 0 (401, and next() is not called).
authenticateUser(us, header) == findOneByToken(us, header)

\* GET /userinfo: the middleware, then the user document is returned
\* (part_001 looks the token up itself and returns a fixed text).
userInfo(snap, us, header) ==
    LET i == authenticateUser(us, header)
    IN  IF i = 0 THEN Answer(401, PleaseLogIn)
        ELSE IF snap = "part_001"
        THEN Answer(200, [secret |-> "This is your user information"])
        ELSE Answer(200, [success |-> TRUE, message |-> "This is your user information",
                          user |-> us[i]])


(***************************** the Treatment model *************************)
\* The fixed in-code list of each snapshot.
TreatmentData(snap) ==
    CASE snap = "part_001" ->
           << [cut |-> "Haircut"], [wash |-> "Hair wash"],
              [cutAndWash |-> "Haircut and wash"], [styling |-> "Hair styling"] >>
      [] snap = "server_378" ->
           << [icon |-> "icon1.png", cut |-> "Haircut"],
              [icon |-> "icon2.png", wash |-> "Hair wash"],
              [icon |-> "icon3.png", cutAndWash |-> "Haircut and wash"],
              [icon |-> "icon4.png", styling |-> "Hair styling"] >>
      [] snap = "server_1" ->
           << [name |-> "Haircut"], [name |-> "Hair Dye"],
              [name |-> "Haircut and Dye"], [name |-> "Hair styling"] >>
      [] OTHER ->
           << [name |-> "Haircut"], [name |-> "Hair Dye"],
              [name |-> "Haircut and Dye"], [name |-> "Hair Styling"] >>

NData == 4

\* new Treatment(data): the document, with the _id the n-th process gives
\* the i-th entry of the list (an ObjectId: distinct from every other).
NewTreatment(snap, n, i) == [id |-> NData * (n - 1) + i, data |-> TreatmentData(snap)[i]]

\* The catalog once the first startup's seeding has run to its end.
SeededOnce(snap) == {NewTreatment(snap, 1, i) : i \in 1..NData}

(***************************** startup state *******************************)
\* A process that is connected to the store and whose seeding has ended:
\* nothing of it is left to run.
Started(n) ==
    [n |-> n, db |-> "up", pc |-> "done", existing |-> {},
     tasks |-> [i \in 1..NData |-> "done"]]

(***************************** accounts: actions ***************************)
\* The requests of the accounts specification come from one client.
AccountClient == "c1"

Register(c, b) ==
    LET r == register(snapshot, users, b, genSaltSync(Len(users) + 1))
    IN  /\ Len(r.users) <= MaxUsers
        /\ users' = r.users
        /\ io' = [io EXCEPT ![c] = Ended(b, r.out)]
        /\ registered' =
              IF r.out.resp.status = 201
              THEN registered \cup {[body |-> b, response |-> r.out.resp.body.response]}
              ELSE registered
        /\ UNCHANGED <<snapshot, treatments, boot>>

Login(c, b) ==
    /\ io' = [io EXCEPT ![c] = Ended(b, login(snapshot, users, b))]
    /\ UNCHANGED <<snapshot, users, treatments, registered, boot>>

UserInfo(c, h) ==
    /\ io' = [io EXCEPT ![c] = Ended([kind |-> "userInfo", authorization |-> h],
                                     userInfo(snapshot, users, h))]
    /\ UNCHANGED <<snapshot, users, treatments, registered, boot>>

Init ==
    /\ snapshot \in Snapshots
    /\ users = << >>
    /\ treatments = SeededOnce(snapshot)
    /\ io = [c \in Clients |-> Idle]
    /\ registered = {}
    /\ boot = Started(1)

Next ==
    \/ \E b \in RegisterBodies : Register(AccountClient, b)
    \/ \E b \in LoginBodies : Login(AccountClient, b)
    \/ \E h \in Headers : UserInfo(AccountClient, h)

Spec == Init /\ [][Next]_vars

(***************************** POST /booktreatment *************************)
TidOf(n) == [typ |-> "ObjectId", id |-> n]
TidMalformed == [typ |-> "malformed", id |-> 0]
TidUndefined == [typ |-> "undefined", id |-> 0]
\* A well-formed id that no treatment has.
TidUnknown == TidOf(NData * MaxStartups + 1)

Date1 == "2023-06-01T10:00"
Date2 == "2023-06-02T10:00"
DateBad == "soon"

\* new Date(pickedDate)
newDate(d) == IF d \in {Date1, Date2} THEN d ELSE "Invalid Date"

BookBody(t, d) == [treatmentId |-> t, pickedDate |-> d]

BookBodies ==
    { BookBody(TidOf(1), Date1),
      BookBody(TidOf(2), Date2),
      BookBody(TidUnknown, Date1),
      BookBody(TidMalformed, Date1),
      BookBody(TidUndefined, Date1),
      BookBody(TidOf(1), DateBad) }

BookRequest(h, b) ==
    [kind |-> "bookTreatment", authorization |-> h,
     treatmentId |-> b.treatmentId, pickedDate |-> b.pickedDate]

\* Every body with the first user's token; one body with every other header.
BookRequests ==
    { BookRequest(randomBytesHex(1), b) : b \in BookBodies }
      \cup { BookRequest(h, BookBody(TidOf(2), Date2)) : h \in Headers }

\* Treatment.findById(treatmentId): a string that is no ObjectId fails the
\* cast (the promise rejects); undefined is looked up as null.
findTreatmentById(ts, tid) ==
    IF tid.typ = "malformed" THEN [error |-> TRUE, found |-> FALSE]
    ELSE [error |-> FALSE,
          found |-> tid.typ = "ObjectId" /\ \E t \in ts : t.id = tid.id]

\* The booking object the handler builds.
Booking(snap, r) ==
    CASE snap \in {"part_001", "server_378"} -> [treatment |-> r.treatmentId.id]
      [] snap = "server_1" ->
           [treatment |-> r.treatmentId.id, bookedDate |-> newDate(r.pickedDate)]
      [] OTHER -> [bookedDate |-> newDate(r.pickedDate)]

\* The subdocument the bookedTreatments schema makes of it: the paths of the
\* schema only (treatment in the older snapshots, bookedDate in part_000).
castBooking(snap, b) ==
    IF snap \in Legacy THEN [treatment |-> b.treatment]
    ELSE [bookedDate |-> b.bookedDate]

\* The validation of the pushed subdocument by user.save().
BookingValid(snap, sub) == snap \in Legacy \/ sub.bookedDate # "Invalid Date"

\* A variant: unshift in the place of push.
unshiftBooking(list, sub) == <<sub>> \o list

\* user.bookedTreatments.push(booking); user.save(): a $push on the stored array.
pushBooking(list, sub) == Append(list, sub)

\* A variant: the handler loads a user with User.findOne() in the place of
\* User.findById(userId): the first user of the collection.
bookTreatmentFindAnyUser(snap, us, ts, r) ==
    LET i == authenticateUser(us, r.authorization)
        t == findTreatmentById(ts, r.treatmentId)
    IN  IF i = 0 THEN Ended(r, Answer(401, PleaseLogIn))
        ELSE IF snap \in Legacy /\ (t.error \/ ~t.found)
        THEN Ended(r, Answer(404, [success |-> FALSE,
                                   message |-> "User or treatment not found"]))
        ELSE [st |-> "found", req |-> r, resp |-> NoResp, sends |-> 0,
              user |-> 1, loaded |-> us[1].bookedTreatments,
              booking |-> Booking(snap, r)]

\* A variant: save() writes the whole array of the loaded document back.
saveLoadedArray(stored, loaded, sub) == pushBooking(loaded, sub)

\* user.save() after the push on the loaded document: Mongoose sends the
\* push as a $push on the stored array, whatever the loaded copy held.
saveBookings(stored, loaded, sub) == pushBooking(stored, sub)

\* The middleware and the handler up to its lookups.  The reads of the user
\* (by token, then by id) are of data no operation changes or deletes, so
\* they are taken together with the read of the catalog.
bookTreatmentFind(snap, us, ts, r) ==
    LET i == authenticateUser(us, r.authorization)
        t == findTreatmentById(ts, r.treatmentId)
    IN  IF i = 0 THEN Ended(r, Answer(401, PleaseLogIn))
        ELSE IF snap \in Legacy /\ t.error
        THEN Ended(r, Answer(500, [success |-> FALSE, message |-> "Failed to book treatment",
                                   error |-> "CastError"]))
        ELSE IF snap \in Legacy /\ ~t.found
        THEN Ended(r, Answer(404, [success |-> FALSE,
                                   message |-> "User or treatment not found"]))
        ELSE [st |-> "found", req |-> r, resp |-> NoResp, sends |-> 0,
              user |-> i, loaded |-> us[i].bookedTreatments,
              booking |-> Booking(snap, r)]

RECURSIVE TotalBookings(_)
TotalBookings(us) ==
    IF us = << >> THEN 0
    ELSE Len(Head(us).bookedTreatments) + TotalBookings(Tail(us))

BookStart(c, r) ==
    /\ io[c].st # "found"
    /\ io' = [io EXCEPT ![c] = bookTreatmentFind(snapshot, users, treatments, r)]
    /\ UNCHANGED <<snapshot, users, treatments, registered, boot>>

BookSave(c) ==
    /\ io[c].st = "found"
    /\ LET u == io[c].user
           sub == castBooking(snapshot, io[c].booking)
       IN  IF BookingValid(snapshot, sub)
           THEN /\ TotalBookings(users) < MaxBookings
                /\ users' = [users EXCEPT ![u].bookedTreatments =
                                               saveBookings(@, io[c].loaded, sub)]
                /\ io' = [io EXCEPT ![c] =
                            Ended(io[c].req,
                                  Answer(200, [success |-> TRUE,
                                               message |-> "Treatment booked successfully",
                                               booking |-> io[c].booking]))]
           ELSE /\ users' = users
                /\ io' = [io EXCEPT ![c] =
                            Ended(io[c].req,
                                  Answer(500, [success |-> FALSE,
                                               message |-> "Failed to book treatment",
                                               error |-> "ValidationError"]))]
    /\ UNCHANGED <<snapshot, treatments, registered, boot>>

(***************************** GET /bookedtreatment ************************)
\* server_1 populates the treatment of each booking; part_000 maps each
\* booking to its date.  The two older snapshots have no such route.
bookedTreatment(snap, us, ts, h) ==
    LET i == authenticateUser(us, h)
    IN  IF i = 0 THEN Answer(401, PleaseLogIn)
        ELSE Answer(200,
               [success |-> TRUE,
                message |-> "Booked treatments retrieved successfully",
                bookedTreatments |->
                   [k \in 1..Len(us[i].bookedTreatments) |->
                      IF snap = "server_1"
                      THEN [treatment |-> {t \in ts : t.id = us[i].bookedTreatments[k].treatment}]
                      ELSE [date |-> us[i].bookedTreatments[k].bookedDate]]])

BookedTreatments(c, h) ==
    /\ snapshot \in {"server_1", "part_000"}
    /\ io[c].st # "found"
    /\ io' = [io EXCEPT ![c] = Ended([kind |-> "bookedTreatment", authorization |-> h],
                                     bookedTreatment(snapshot, users, treatments, h))]
    /\ UNCHANGED <<snapshot, users, treatments, registered, boot>>

\* Two users have registered; the catalog is seeded.
TwoUsers(snap) ==
    register(snap, register(snap, << >>, BodyAnna, genSaltSync(1)).users,
             BodyBo, genSaltSync(2)).users

InitBook ==
    /\ snapshot \in Snapshots
    /\ users = TwoUsers(snapshot)
    /\ treatments = SeededOnce(snapshot)
    /\ io = [c \in Clients |-> Idle]
    /\ registered = { [body |-> BodyAnna, response |-> Projection(snapshot, users[1])],
                      [body |-> BodyBo, response |-> Projection(snapshot, users[2])] }
    /\ boot = Started(1)

NextBook ==
    \/ \E c \in Clients, r \in BookRequests : BookStart(c, r)
    \/ \E c \in Clients : BookSave(c)
    \/ \E h \in Headers : BookedTreatments(AccountClient, h)
    \/ \E h \in Headers : io[AccountClient].st # "found" /\ UserInfo(AccountClient, h)

SpecBook == InitBook /\ [][NextBook]_vars

(***************************** a user's whole life *************************)
\* Registration, login, the protected reads and bookings of one client
\* against one store, from the empty User collection on.
LifeBodies == {BodyAnna, BodyBo, Body("Bo", "Ek", EA, P2, Pw2)}

InitLife ==
    /\ snapshot \in Snapshots
    /\ users = << >>
    /\ treatments = SeededOnce(snapshot)
    /\ io = [c \in Clients |-> Idle]
    /\ registered = {}
    /\ boot = Started(1)

NextLife ==
    \/ \E b \in LifeBodies : io[AccountClient].st # "found" /\ Register(AccountClient, b)
    \/ \E b \in LoginBodies : io[AccountClient].st # "found" /\ Login(AccountClient, b)
    \/ \E h \in Headers : io[AccountClient].st # "found" /\ UserInfo(AccountClient, h)
    \/ \E h \in Headers : BookedTreatments(AccountClient, h)
    \/ \E r \in BookRequests : BookStart(AccountClient, r)
    \/ BookSave(AccountClient)

SpecLife == InitLife /\ [][NextLife]_vars

(***************************** claims: accounts ****************************)
\* The body b carries the email or the mobilePhone of a stored user (the
\* phone as the schema of the snapshot holds it).
Duplicate(snap, us, b) ==
    \E i \in 1..Len(us) :
        \/ us[i].email = b.email
        \/ us[i].mobilePhone = castPhone(snap, b.mobilePhone)

\* C1: a register request whose email or mobilePhone equals a stored
\* user's is answered with status 400 and leaves the stored users as they
\* were, whatever its other fields are.
C1_DuplicateRejected ==
    [][\A b \in RegisterBodies :
          (Register(AccountClient, b) /\ Duplicate(snapshot, users, b))
              => (io'[AccountClient].resp.status = 400 /\ users' = users)]_vars

\* C2: two failing logins that differ only in the email, one registered
\* (with a password that does not match) and one not registered, get the
\* same status and the same body, for every password value.
C2_LoginFailuresIndistinguishable ==
    \A b1 \in LoginBodies, b2 \in LoginBodies :
        ( /\ b1.password = b2.password
          /\ \E i \in 1..Len(users) :
                /\ users[i].email = b1.email
                /\ ~(b1.password.typ = "string"
                       /\ compareSync(b1.password.val, users[i].password))
          /\ \A i \in 1..Len(users) : users[i].email # b2.email
          /\ isEmail(b1.email) /\ isEmail(b2.email) )
        => LET r1 == login(snapshot, users, b1).resp
               r2 == login(snapshot, users, b2).resp
           IN  r1.status = r2.status /\ r1.body = r2.body

\* C4: after register answered 201 with id I and token T for email E and
\* password P, login with E and P is answered 200 with I and T, and the
\* middleware resolves T to the user with id I.
C4_RegisterLoginAuthenticate ==
    \A g \in registered :
        LET r == login(snapshot, users,
                       [kind |-> "login", email |-> g.body.email,
                        password |-> g.body.password]).resp
        IN  /\ r.status = 200
            /\ r.body.response.id = g.response.id
            /\ r.body.response.accessToken = g.response.accessToken
            /\ authenticateUser(users, g.response.accessToken) = g.response.id

\* The input rules of registration, as the specification states them.
ViolatesInputRule(b) ==
    \/ Len(b.firstName) < 2 \/ Len(b.firstName) > 30
    \/ Len(b.lastName) < 2 \/ Len(b.lastName) > 30
    \/ ~isEmail(b.email)
    \/ ~isMobilePhone(b.mobilePhone)
    \/ (b.password.typ = "string"
          /\ (Len(b.password.val) < 15 \/ Len(b.password.val) > 20))

\* C5: a register request that violates an input rule is answered with
\* status 400 and creates no user.
C5_InvalidInputRejected ==
    [][\A b \in RegisterBodies :
          (Register(AccountClient, b) /\ ViolatesInputRule(b))
              => (io'[AccountClient].resp.status = 400 /\ users' = users)]_vars

\* C9: no two stored users have the same email, and no two the same
\* mobilePhone.
C9_UniqueEmailAndPhone ==
    \A i \in 1..Len(users), j \in 1..Len(users) :
        i # j => /\ users[i].email # users[j].email
                 /\ users[i].mobilePhone # users[j].mobilePhone

\* A second registration has been refused by a unique index.
C9_Witness ==
    /\ Len(users) >= 1
    /\ io[AccountClient].req.kind = "register"
    /\ io[AccountClient].resp.status = 400
    /\ io[AccountClient].resp.body = CouldNotCreate("E11000 duplicate key")

\* C10: no two stored users have the same accessToken, and the token of a
\* registered user is neither the password that was submitted nor the
\* stored hash of it.
C10_TokensUniqueAndNotPassword ==
    /\ \A i \in 1..Len(users), j \in 1..Len(users) :
          i # j => users[i].accessToken # users[j].accessToken
    /\ \A g \in registered :
          /\ g.response.accessToken # g.body.password.val
          /\ g.response.accessToken # users[g.response.id].password
          /\ users[g.response.id].accessToken = g.response.accessToken

\* Two registrations have been answered 201.
C10_Witness == Len(users) >= 2 /\ Cardinality(registered) >= 2

(***************************** claims: protected endpoints ******************)
\* The header h is missing or is no stored user's accessToken.
NoSuchToken(us, h) ==
    h = HeaderMissing \/ \A i \in 1..Len(us) : us[i].accessToken # h

Unauthenticated(c) ==
    /\ io'[c].st = "answered"
    /\ io'[c].resp.status = 401
    /\ io'[c].resp.body.loggedOut
    /\ users' = users

\* C3: a request to book-treatment, booked-treatments or user-info whose
\* Authorization header is missing or is no stored user's token is
\* answered 401 with loggedOut = true, and the handler behind the
\* middleware does not run: nothing is stored, no booking is in the making.
C3_UnauthenticatedIs401 ==
    [][\A c \in Clients, h \in Headers :
          NoSuchToken(users, h) =>
              /\ \A r \in BookRequests :
                    (r.authorization = h /\ BookStart(c, r)) => Unauthenticated(c)
              /\ BookedTreatments(c, h) => Unauthenticated(c)
              /\ UserInfo(c, h) => Unauthenticated(c)]_vars

\* A book-treatment request without the header has been answered 401.
C3_Witness ==
    \E c \in Clients :
        /\ io[c].req.kind = "bookTreatment"
        /\ io[c].req.authorization = HeaderMissing
        /\ io[c].resp.status = 401

\* The request names no treatment of the catalog.
NoSuchTreatment(ts, r) ==
    ~(r.treatmentId.typ = "ObjectId" /\ \E t \in ts : t.id = r.treatmentId.id)

\* C6: an authenticated book-treatment request whose treatment identity
\* matches no treatment of the catalog is answered 404, and the caller's
\* bookedTreatments list is left as it was.
C6_UnknownTreatmentIs404 ==
    [][\A c \in Clients :
          /\ \A r \in BookRequests :
                ( /\ BookStart(c, r)
                  /\ ~NoSuchToken(users, r.authorization)
                  /\ NoSuchTreatment(treatments, r) )
                => (io'[c].resp.status = 404 /\ users' = users)
          /\ (BookSave(c) /\ NoSuchTreatment(treatments, io[c].req))
                => users' = users]_vars

\* C7: the save of a successful book-treatment request extends that user's
\* list by exactly its record, at the end, and leaves the other users and
\* the catalog as they were; so two successive successful requests of a
\* user append two records, the first call's before the second call's.
C7_BookingAppends ==
    [][\A c \in Clients :
          (BookSave(c) /\ io'[c].resp.status = 200)
          => /\ treatments' = treatments
             /\ Len(users') = Len(users)
             /\ \A i \in 1..Len(users) :
                   IF i = io[c].user
                   THEN users'[i].bookedTreatments =
                           Append(users[i].bookedTreatments,
                                  castBooking(snapshot, io[c].booking))
                   ELSE users'[i] = users[i]]_vars

\* A user holds two different bookings, the second just answered 200.
C7_Witness ==
    \E c \in Clients, i \in 1..Len(users) :
        /\ io[c].req.kind = "bookTreatment"
        /\ io[c].resp.status = 200
        /\ Len(users[i].bookedTreatments) = 2
        /\ users[i].bookedTreatments[1] # users[i].bookedTreatments[2]
        /\ users[i].bookedTreatments[2] = castBooking(snapshot, io[c].resp.body.booking)

(***************************** startup: seeding ****************************)
\* The module's top level as process n starts: part_001 and server_378 start
\* one async callback per entry of the list (forEach), server_1 and part_000
\* call createTreatments, which first fetches the catalog.
Fresh(snap, n) ==
    [n |-> n,
     db |-> "up",
     pc |-> IF snap \in {"part_001", "server_378"} THEN "forEach" ELSE "find",
     existing |-> {},
     tasks |-> [i \in 1..NData |->
                  CASE snap = "part_001" -> "save"
                    [] snap = "server_378" -> "findOne"
                    [] OTHER -> "wait"]]

\* The same, with a store that cannot be reached: mongoose.connect(mongoUrl)
\* is not awaited and its rejection is not handled, the rest of the module
\* runs as it does otherwise.
FreshDown(snap, n) == [Fresh(snap, n) EXCEPT !.db = "down"]

\* Entry i of the list has been dealt with; the seeding ends with the last.
TaskDone(b, i) ==
    LET t == [b.tasks EXCEPT ![i] = "done"]
    IN  [b EXCEPT !.tasks = t,
                  !.pc = IF \A j \in 1..NData : t[j] = "done" THEN "done" ELSE b.pc]

\* Treatment.findOne(treatmentData): is there a document with these fields?
findOneTreatment(ts, data) == \E t \in ts : t.data = data

\* existingTreatments.find(treatment => treatment.name === treatmentData.name)
findExisting(existing, data) == \E t \in existing : t.data.name = data.name

\* server_378: await Treatment.findOne(treatmentData) of callback i.
SeedFindOne(i) ==
    /\ snapshot = "server_378"
    /\ boot.db = "up"
    /\ boot.tasks[i] = "findOne"
    /\ boot' = IF findOneTreatment(treatments, TreatmentData(snapshot)[i])
               THEN TaskDone(boot, i)
               ELSE [boot EXCEPT !.tasks[i] = "save"]
    /\ UNCHANGED <<snapshot, users, treatments, io, registered>>

\* part_001, server_378: await treatment.save() of callback i.
SeedSave(i) ==
    /\ snapshot \in {"part_001", "server_378"}
    /\ boot.db = "up"
    /\ boot.tasks[i] = "save"
    /\ treatments' = treatments \cup {NewTreatment(snapshot, boot.n, i)}
    /\ boot' = TaskDone(boot, i)
    /\ UNCHANGED <<snapshot, users, io, registered>>

\* server_1, part_000: const existingTreatments = await Treatment.find().
SeedFindAll ==
    /\ snapshot \in {"server_1", "part_000"}
    /\ boot.db = "up"
    /\ boot.pc = "find"
    /\ boot' = [boot EXCEPT !.pc = "loop", !.existing = treatments]
    /\ UNCHANGED <<snapshot, users, treatments, io, registered>>

\* server_1, part_000: one turn of the for loop, entry after entry.
SeedNext ==
    /\ snapshot \in {"server_1", "part_000"}
    /\ boot.db = "up"
    /\ boot.pc = "loop"
    /\ LET i == CHOOSE j \in 1..NData :
                   /\ boot.tasks[j] = "wait"
                   /\ \A k \in 1..(j - 1) : boot.tasks[k] = "done"
       IN  /\ treatments' =
                 IF findExisting(boot.existing, TreatmentData(snapshot)[i])
                 THEN treatments
                 ELSE treatments \cup {NewTreatment(snapshot, boot.n, i)}
           /\ boot' = TaskDone(boot, i)
    /\ UNCHANGED <<snapshot, users, io, registered>>

\* Without a connection the store calls of the seeding reject; the catch
\* blocks around them log or ignore the error, and nothing is seeded.
SeedFails ==
    /\ boot.db = "down"
    /\ boot.pc \in {"forEach", "find"}
    /\ boot' = [boot EXCEPT !.pc = "failed"]
    /\ UNCHANGED <<snapshot, users, treatments, io, registered>>

\* The rejection of mongoose.connect is handled nowhere: a Node version
\* that ends the process on an unhandled rejection ends it (others only
\* warn, and the process goes on).
UnhandledRejection ==
    /\ boot.db = "down"
    /\ boot.pc # "crashed"
    /\ boot' = [boot EXCEPT !.pc = "crashed"]
    /\ UNCHANGED <<snapshot, users, treatments, io, registered>>

\* The process ends (at any point of its seeding, or after it) and the
\* next one starts on the same store, which it reaches or not.
Restart ==
    /\ boot.n < MaxStartups
    /\ boot' \in {Fresh(snapshot, boot.n + 1), FreshDown(snapshot, boot.n + 1)}
    /\ UNCHANGED <<snapshot, users, treatments, io, registered>>

\* GET /treatments.  The sort argument of server_378 is no sort order:
\* Query.sort throws inside the try block.
listTreatments(snap, ts) ==
    IF snap = "server_378"
    THEN Answer(500, [success |-> FALSE, message |-> "Failed to retrieve treatments",
                      error |-> "TypeError"])
    ELSE Answer(200, [success |-> TRUE, treatments |-> ts])

\* app.listen is called whatever became of the connection.  Without one,
\* Treatment.find() is buffered: it rejects when the buffering times out
\* (500), or stays pending where the Mongoose version has no such timeout.
ListTreatments(c) ==
    /\ boot.pc # "crashed"
    /\ \E out \in IF boot.db = "up"
                  THEN {listTreatments(snapshot, treatments)}
                  ELSE {Answer(500, [success |-> FALSE,
                                     message |-> "Failed to retrieve treatments",
                                     error |-> "MongooseError"]),
                        Unanswered} :
          io' = [io EXCEPT ![c] = Ended([kind |-> "treatments"], out)]
    /\ UNCHANGED <<snapshot, users, treatments, registered, boot>>

InitStartup ==
    /\ snapshot \in Snapshots
    /\ users = << >>
    /\ treatments = {}
    /\ io = [c \in Clients |-> Idle]
    /\ registered = {}
    /\ boot \in {Fresh(snapshot, 1), FreshDown(snapshot, 1)}

NextStartup ==
    \/ \E i \in 1..NData : SeedFindOne(i)
    \/ \E i \in 1..NData : SeedSave(i)
    \/ SeedFindAll
    \/ SeedNext
    \/ SeedFails
    \/ UnhandledRejection
    \/ Restart
    \/ ListTreatments(AccountClient)

SpecStartup == InitStartup /\ [][NextStartup]_vars

(***************************** claims: seeding *****************************)
\* The catalog holds each entry of the in-code list exactly once.
EachTreatmentOnce ==
    \A i \in 1..NData :
        Cardinality({t \in treatments : t.data = TreatmentData(snapshot)[i]}) = 1

\* C8: the seeding is idempotent: on a catalog that holds each entry of
\* the in-code list once no step of a startup adds a treatment, and
\* whenever a startup's seeding has ended, the first or a later one, the
\* catalog holds each entry of the list exactly once.
C8_SeedingIdempotent ==
    [][ /\ EachTreatmentOnce => treatments' = treatments
        /\ boot'.pc = "done" => EachTreatmentOnce' ]_vars

(***************************** claims: a user's life ***********************)
\* C11: no step removes a user or changes a stored user's accessToken or
\* id, and after every step, for each registration that returned id I and
\* token T: a protected request carrying T is authenticated as user I, and
\* every login that succeeds for user I returns T.
C11_TokenNeverChanges ==
    [][ /\ Len(users') >= Len(users)
        /\ \A i \in 1..Len(users) :
              /\ users'[i].accessToken = users[i].accessToken
              /\ users'[i].id = users[i].id
        /\ \A g \in registered' :
              /\ authenticateUser(users', g.response.accessToken) = g.response.id
              /\ \A b \in LoginBodies :
                    LET out == login(snapshot', users', b)
                    IN  (/\ out.resp.status = 200
                         /\ out.resp.body.response.id = g.response.id)
                        => out.resp.body.response.accessToken = g.response.accessToken
      ]_vars

\* A user who registered and has booked since logs in and gets the token
\* of the registration.
C11_Witness ==
    \E g \in registered :
        /\ Len(users[g.response.id].bookedTreatments) >= 1
        /\ io[AccountClient].req.kind = "login"
        /\ io[AccountClient].resp.status = 200
        /\ io[AccountClient].resp.body.response.id = g.response.id
        /\ io[AccountClient].resp.body.response.accessToken = g.response.accessToken

\* The sequence p is a prefix of the sequence q.
IsPrefix(p, q) == Len(p) <= Len(q) /\ \A k \in 1..Len(p) : p[k] = q[k]

C13_PasswordStoredHashed ==
    [][ /\ \A i \in 1..Len(users) : users'[i].password = users[i].password
        /\ \A b \in RegisterBodies :
              (Len(users') > Len(users) /\ Register(AccountClient, b)) =>
                 LET u == users'[Len(users')]
                 IN  /\ u.password # b.password.val
                     /\ \E salt \in Salts : u.password = hashSync(b.password.val, salt)
                     /\ \A i \in 1..Len(users) : users[i].password # u.password
      ]_vars

\* A second user has been stored whose password is the first user's.
C13_Witness ==
    /\ Len(users) >= 2
    /\ io[AccountClient].req.kind = "register"
    /\ users[Len(users)].firstName = io[AccountClient].req.firstName
    /\ io[AccountClient].req.password.typ = "string"
    /\ compareSync(io[AccountClient].req.password.val, users[Len(users)].password)
    /\ compareSync(io[AccountClient].req.password.val, users[1].password)

\* C14: the body of a 201 of register and of a 200 of login is success
\* and a projection of the user that has no password field, carries the
\* user's id and accessToken, and in which no text field is the stored hash
\* and the token is not the password that was sent.
C14_SuccessResponsesSanitized ==
    \A c \in Clients :
        ( \/ io[c].req.kind = "register" /\ io[c].resp.status = 201
          \/ io[c].req.kind = "login" /\ io[c].resp.status = 200 ) =>
            LET p == io[c].resp.body.response
            IN  /\ DOMAIN io[c].resp.body = {"success", "response"}
                /\ "password" \notin DOMAIN p
                /\ {"id", "accessToken"} \subseteq DOMAIN p
                /\ p.id \in 1..Len(users)
                /\ p.accessToken = users[p.id].accessToken
                /\ p.accessToken # io[c].req.password.val
                /\ \A f \in DOMAIN p \cap {"firstName", "lastName", "accessToken"} :
                      p[f] # users[p.id].password

\* A login has been answered 200.
C14_Witness ==
    /\ io[AccountClient].req.kind = "login"
    /\ io[AccountClient].resp.status = 200
    /\ io[AccountClient].resp.body.response.id \in 1..Len(users)

(***************************** claims: bookings ****************************)
\* C15: when a book-treatment request is answered 200, the booking of the
\* response is the record that was appended to the caller's list: every
\* field of it (the treatment reference, the date) is a field of the
\* stored record, with the same value.
C15_ResponseIsStoredBooking ==
    [][\A c \in Clients :
          (BookSave(c) /\ io'[c].resp.status = 200) =>
             LET sent == io'[c].resp.body.booking
                 list == users'[io[c].user].bookedTreatments
                 stored == list[Len(list)]
             IN  /\ Len(list) = Len(users[io[c].user].bookedTreatments) + 1
                 /\ \A f \in DOMAIN sent : f \in DOMAIN stored /\ stored[f] = sent[f]
      ]_vars

(***************************** claims: responses ***************************)
\* C16: no request is left unanswered: a client whose request's handler
\* has ended holds a response.
C16_EveryRequestAnswered ==
    \A c \in Clients :
        (io[c].req.kind # "none" /\ io[c].st # "found") =>
            (io[c].st = "answered" /\ io[c].resp.status # 0)

(***************************** claims: startup *****************************)
\* Every entry of the in-code list is in the catalog.
CatalogComplete ==
    \A i \in 1..NData : \E t \in treatments : t.data = TreatmentData(snapshot)[i]

\* C17: no list-treatments request is handled, by a process that reaches
\* the store, while an entry of the in-code list is missing from the
\* catalog.
C17_SeededBeforeTraffic ==
    [][\A c \in Clients :
          (ListTreatments(c) /\ boot.db = "up") => CatalogComplete]_vars

\* C18: a process whose connection to the store could not be established
\* handles no request.
C18_NoTrafficWithoutStore ==
    [][\A c \in Clients : ListTreatments(c) => boot.db = "up"]_vars

(***************************** claims: interleaving ************************)
\* The number of records of list equal to rec.
Occurrences(list, rec) == Cardinality({k \in 1..Len(list) : list[k] = rec})

\* The clients whose book-treatment request, with the token of user i, for
\* the record rec, has been answered 200.
Booked(i, rec) ==
    {c \in Clients : /\ io[c].req.kind = "bookTreatment"
                     /\ io[c].resp.status = 200
                     /\ io[c].req.authorization = users[i].accessToken
                     /\ castBooking(snapshot, io[c].resp.body.booking) = rec}

\* C19: no booking is lost, however the book-treatment requests of a user
\* interleave: the record of every request that was answered 200 is in the
\* user's stored list, as many times as there are such requests.
C19_NoLostBooking ==
    \A i \in 1..Len(users), c \in Clients :
        ( /\ io[c].req.kind = "bookTreatment"
          /\ io[c].resp.status = 200
          /\ io[c].req.authorization = users[i].accessToken ) =>
            LET rec == castBooking(snapshot, io[c].resp.body.booking)
            IN  Occurrences(users[i].bookedTreatments, rec) >= Cardinality(Booked(i, rec))

\* Two requests of a user overlap: one has been answered 200 and its
\* record is stored, the other read the user before that and has yet to save.
C19_Witness ==
    \E c \in Clients, d \in Clients :
        /\ c # d
        /\ io[d].st = "found"
        /\ io[c].req.kind = "bookTreatment"
        /\ io[c].resp.status = 200
        /\ io[c].req.authorization = users[io[d].user].accessToken
        /\ Len(io[d].loaded) < Len(users[io[d].user].bookedTreatments)

(***************************** claims: one response *************************)
\* C20: a handler sends, or attempts to send, at most one response for a
\* request.
C20_AtMostOneResponse == \A c \in Clients : io[c].sends <= 1

(***************************** claims: protected reads **********************)
\* The text fields of a user document, as far as doc has them.
TextFields(doc) == DOMAIN doc \cap {"firstName", "lastName", "password", "accessToken"}

\* C21: no response of user-info or of booked-treatments holds the stored
\* password hash of a user: the user it returns, if it returns one, has no
\* text field that is the password field of a stored user.
C21_ReadsHoldNoHash ==
    \A c \in Clients :
        ( /\ io[c].req.kind \in {"userInfo", "bookedTreatment"}
          /\ io[c].st = "answered"
          /\ "user" \in DOMAIN io[c].resp.body ) =>
            \A f \in TextFields(io[c].resp.body.user), j \in 1..Len(users) :
                io[c].resp.body.user[f] # users[j].password

=============================================================================
